---- MODULE Spec2Model ----
(***************************************************************************)
(* Model of regexparser/state_machine.py: the labelled graph NDSMGraph,    *)
(* its deterministic extension DSMGraph, and StateMachine, which builds a  *)
(* nondeterministic automaton from a RegEx tree (_parse_regex) and then a  *)
(* deterministic one by subset construction (_build_dsm).                  *)
(***************************************************************************)
EXTENDS Integers, Sequences, FiniteSets, TLC

VARIABLES
    pc,           \* position of the running operation
    regex,        \* StateMachine.regex, the input tree
    frames,       \* call stack of _parse_regex
    ret,          \* value returned by the last finished _parse_regex call
    ndsm_graph,   \* the NDSMGraph of _build_ndsm
    graph,        \* the DSMGraph (StateMachine.graph); the graph under query
    stack,        \* _build_dsm's worklist
    curr_node,    \* _build_dsm's curr_node
    sym_idx,      \* position of the for loop over REGEX_ALPHABET
    exception,    \* the exception raised, "None" when there is none
    args,         \* the arguments of the running query
    in_processing,    \* get_reachable_nodes' in_processing
    reachable_nodes,  \* get_reachable_nodes' reachable_nodes
    queue,        \* the queue of bfs and distance_to_finite
    used,         \* the used set of bfs and distance_to_finite
    result,       \* the value the last query returned
    log,          \* the nodes the running loop took, in the order it took them
    sym_order,    \* the order the for loop of _build_dsm takes the symbols in
    pushes,       \* history: the nodes appended to stack, in order
    pops,         \* history: the nodes popped from stack, in order
    first_graph   \* the DSMGraph of an earlier construction from an equal tree

more_vars == <<sym_order, pushes, pops, first_graph>>
build_vars == <<regex, frames, ret, ndsm_graph, stack, curr_node, sym_idx, more_vars>>
query_vars == <<args, in_processing, reachable_nodes, queue, used, result, log>>
vars == <<pc, graph, exception, build_vars, query_vars>>

(***************************************************************************)
(* Bounds of the model.                                                    *)
(***************************************************************************)
MaxSize == 5     \* largest number of nodes of an input tree
MaxLen == 3      \* longest string walked through the automaton
MaxNodes == 3    \* nodes of the graphs the queries are run on
MaxEdges == 3    \* edges of the graphs the queries are run on
MaxMoves == 2    \* largest moves_count given to n_moves

(***************************************************************************)
(* Configuration collaborators (regexparser.config, regexparser.constants).*)
(***************************************************************************)
EPSILON == "eps"
REGEX_ALPHABET == <<"a", "b">>
Alphabet == {REGEX_ALPHABET[i] : i \in 1..Len(REGEX_ALPHABET)}

\* Python's None where a node (a tuple) is expected: no DSM node is the
\* empty tuple, _build_dsm skips an empty next_node.
None == <<>>

(***************************************************************************)
(* RegEx trees (regexparser.regular_expression).                           *)
(***************************************************************************)
Literal(s) == [op |-> "UNDEFINED", string |-> s]
Neutral == [op |-> "NEUTRAL"]
Malformed == [op |-> "MALFORMED"]
Alternation(e1, e2) == [op |-> "PLUS", ex1 |-> e1, ex2 |-> e2]
Concatenation(e1, e2) == [op |-> "CONCAT", ex1 |-> e1, ex2 |-> e2]
Repetition(e1) == [op |-> "STAR", ex1 |-> e1]

Leaves == {Literal(s) : s \in Alphabet} \cup {Neutral, Malformed}

\* The trees of exactly n nodes.
RECURSIVE TreesOfSize(_)
TreesOfSize(n) ==
    IF n = 1 THEN Leaves
    ELSE {Repetition(e) : e \in TreesOfSize(n - 1)}
         \cup UNION {{Alternation(e1, e2) : e1 \in TreesOfSize(k), e2 \in TreesOfSize(n - 1 - k)}
                     : k \in 1..(n - 2)}
         \cup UNION {{Concatenation(e1, e2) : e1 \in TreesOfSize(k), e2 \in TreesOfSize(n - 1 - k)}
                     : k \in 1..(n - 2)}

Trees == UNION {TreesOfSize(n) : n \in 1..MaxSize}

\* RegEx.is_neutral: the subtree matches only the empty string.
RECURSIVE is_neutral(_)
is_neutral(r) ==
    CASE r.op = "NEUTRAL" -> TRUE
      [] r.op = "PLUS" -> is_neutral(r.ex1) /\ is_neutral(r.ex2)
      [] r.op = "CONCAT" -> is_neutral(r.ex1) /\ is_neutral(r.ex2)
      [] r.op = "STAR" -> is_neutral(r.ex1)
      [] OTHER -> FALSE

\* The tree has a node whose tag is none of the five kinds.
RECURSIVE HasMalformedTag(_)
HasMalformedTag(r) ==
    CASE r.op \in {"PLUS", "CONCAT"} -> HasMalformedTag(r.ex1) \/ HasMalformedTag(r.ex2)
      [] r.op = "STAR" -> HasMalformedTag(r.ex1)
      [] OTHER -> r.op = "MALFORMED"

(***************************************************************************)
(* NDSMGraph.  graph is the defaultdict of defaultdicts of sets: a         *)
(* function whose domain is the set of keys the dict holds, so that a read *)
(* that inserts a default entry is visible.                                *)
(***************************************************************************)
NDSMGraph == [graph |-> <<>>, nodes |-> {}, nodes_pointer |-> 0, finite_nodes |-> {}]

\* self.graph[source]: the inner dict read, the default being an empty dict.
Row(g, source) == IF source \in DOMAIN g.graph THEN g.graph[source] ELSE <<>>

\* The graph after self.graph[source] was evaluated.
TouchRow(g, source) == [g EXCEPT !.graph = (source :> Row(g, source)) @@ @]

\* The graph after self.graph[source][key] was evaluated.
Touch(g, source, key) ==
    [g EXCEPT !.graph = (source :> (Row(g, source) @@ (key :> {}))) @@ @]

RECURSIVE TouchAll(_, _)
TouchAll(g, pairs) ==
    IF pairs = {} THEN g
    ELSE LET p == CHOOSE q \in pairs : TRUE
         IN TouchAll(Touch(g, p[1], p[2]), pairs \ {p})

\* add_edge when the sets of one key are a single object shared by the sources.
add_edge_shared_set(g, source, target, key) ==
    [g EXCEPT !.nodes = @ \cup {source, target},
              !.graph = [s \in DOMAIN g.graph \cup {source} |->
                            (key :> ((IF key \in DOMAIN Row(g, s) THEN Row(g, s)[key] ELSE {})
                                     \cup {target}))
                            @@ Row(g, s)]]

\* add_edge with source and target taken for one another.
add_edge_swapped(g, source, target, key) ==
    [g EXCEPT !.nodes = @ \cup {source, target},
              !.graph = (target :> ((key :> ((IF key \in DOMAIN Row(g, target)
                                               THEN Row(g, target)[key] ELSE {})
                                              \cup {source}))
                                    @@ Row(g, target))) @@ @]

add_edge(g, source, target, key) ==
    [g EXCEPT !.nodes = @ \cup {source, target},
              !.graph = (source :> ((key :> ((IF key \in DOMAIN Row(g, source)
                                               THEN Row(g, source)[key] ELSE {})
                                              \cup {target}))
                                    @@ Row(g, source))) @@ @]

add_finite_node(g, node) == [g EXCEPT !.finite_nodes = @ \cup {node}]

is_finite_node(g, node) == node \in g.finite_nodes

\* The value get_edges_form returns.
get_edges_form(g, source, key) ==
    IF key \in DOMAIN Row(g, source) THEN Row(g, source)[key] ELSE {}

\* get_new_node returns g.nodes_pointer and leaves this graph.
get_new_node(g) == [g EXCEPT !.nodes_pointer = @ + 1]

\* regexparser.utils.merge_sets: the union of a collection of sets.
merge_sets(sets) == UNION sets

\* The loop body with "=" in the place of "|=": the pending nodes are dropped.
loop_body_assign(g, processing, curr, reached) ==
    get_edges_form(g, curr, EPSILON) \ reached

\* in_processing after one pass of the while loop of get_reachable_nodes that
\* popped curr: reached is reachable_nodes after reachable_nodes.add(curr).
loop_body(g, processing, curr, reached) ==
    (processing \ {curr}) \cup (get_edges_form(g, curr, EPSILON) \ reached)

\* The while loop of get_reachable_nodes, popping the element CHOOSE names;
\* the result does not depend on the element popped (see C7).
RECURSIVE reachable_loop(_, _, _)
reachable_loop(g, processing, reached) ==
    IF processing = {} THEN reached
    ELSE LET curr == CHOOSE n \in processing : TRUE
         IN reachable_loop(g, loop_body(g, processing, curr, reached \cup {curr}),
                           reached \cup {curr})

\* in_processing as get_reachable_nodes sets it before its loop.
initial_in_processing(g, node, symbol) ==
    IF symbol = EPSILON THEN {node}
    ELSE LET eps_dist == reachable_loop(g, {node}, {})
         IN get_edges_form(g, node, symbol)
            \cup merge_sets({get_edges_form(g, c_node, symbol) : c_node \in eps_dist})

get_reachable_nodes(g, node, symbol) ==
    reachable_loop(g, initial_in_processing(g, node, symbol), {})

\* The dict entries get_reachable_nodes reads, through get_edges_form, before
\* its loop.
initial_reads(g, node, symbol) ==
    IF symbol = EPSILON THEN {}
    ELSE LET eps_dist == get_reachable_nodes(g, node, EPSILON)
         IN {<<c, EPSILON>> : c \in eps_dist} \cup {<<node, symbol>>}
            \cup {<<c, symbol>> : c \in eps_dist}

\* The dict entries get_reachable_nodes reads, each through get_edges_form.
reachable_reads(g, node, symbol) ==
    initial_reads(g, node, symbol)
    \cup {<<c, EPSILON>> : c \in get_reachable_nodes(g, node, symbol)}

Range(seq) == {seq[i] : i \in 1..Len(seq)}

\* reduce without an initial value raises TypeError on an empty iterable.
get_reachable_nodes_from(g, nodes, symbol) ==
    IF nodes = <<>> THEN [exception |-> "TypeError", value |-> {}]
    ELSE [exception |-> "None",
          value |-> UNION {get_reachable_nodes(g, node, symbol) : node \in Range(nodes)}]

reachable_from_reads(g, nodes, symbol) ==
    UNION {reachable_reads(g, node, symbol) : node \in Range(nodes)}

\* The loop of get_reachable_nodes when it does not follow EPSILON edges.
reachable_loop_outcomes_no_epsilon(g, processing, reached) ==
    {processing \cup reached}

\* The values the while loop of get_reachable_nodes can end with: pop takes
\* any element of in_processing.
RECURSIVE reachable_loop_outcomes(_, _, _)
reachable_loop_outcomes(g, processing, reached) ==
    IF processing = {} THEN {reached}
    ELSE UNION {reachable_loop_outcomes(
                    g, loop_body(g, processing, curr, reached \cup {curr}),
                    reached \cup {curr}) : curr \in processing}

\* The values get_reachable_nodes can return.
get_reachable_nodes_outcomes(g, node, symbol) ==
    IF symbol = EPSILON THEN reachable_loop_outcomes(g, {node}, {})
    ELSE UNION {reachable_loop_outcomes(
                    g,
                    get_edges_form(g, node, symbol)
                    \cup merge_sets({get_edges_form(g, c_node, symbol) : c_node \in eps_dist}),
                    {}) : eps_dist \in reachable_loop_outcomes(g, {node}, {})}

\* reduce gives the value of the first node and leaves the other nodes out.
get_reachable_nodes_from_outcomes_first(g, nodes, symbol) ==
    get_reachable_nodes_outcomes(g, nodes[1], symbol)

\* The values get_reachable_nodes_from can return for a non-empty tuple of
\* nodes: reduce joins one value of get_reachable_nodes per node.
RECURSIVE get_reachable_nodes_from_outcomes(_, _, _)
get_reachable_nodes_from_outcomes(g, nodes, symbol) ==
    IF Len(nodes) = 1 THEN get_reachable_nodes_outcomes(g, nodes[1], symbol)
    ELSE {a \cup b :
            a \in get_reachable_nodes_from_outcomes(
                     g, SubSeq(nodes, 1, Len(nodes) - 1), symbol),
            b \in get_reachable_nodes_outcomes(g, nodes[Len(nodes)], symbol)}

get_neighbors(g, node) == merge_sets({Row(g, node)[key] : key \in DOMAIN Row(g, node)})

(***************************************************************************)
(* DSMGraph.                                                               *)
(***************************************************************************)
DSMGraph == [graph |-> <<>>, nodes |-> {}, nodes_pointer |-> 0, finite_nodes |-> {},
             start_node |-> None]

\* The values get_next_node can return: pop takes any element of the set.
get_next_node(g, node, symbol) ==
    LET reached == get_reachable_nodes(g, node, symbol)
    IN IF reached # {} THEN reached ELSE {None}

\* The test made on finite_nodes in the place of nodes.
is_exist_node_finite(g, node) == node \in g.finite_nodes

is_exist_node(g, node) == node \in g.nodes

\* The runs n_moves can take: the value it returns and the dict entries it
\* read on the way.
RECURSIVE n_moves(_, _, _, _)
n_moves(g, node, symbol, moves_count) ==
    IF moves_count = 0 THEN {[value |-> node, reads |-> {}]}
    ELSE UNION {IF n = None
                THEN {[value |-> None, reads |-> reachable_reads(g, node, symbol)]}
                ELSE {[value |-> r.value,
                       reads |-> reachable_reads(g, node, symbol) \cup r.reads] :
                         r \in n_moves(g, n, symbol, moves_count - 1)}
                : n \in get_next_node(g, node, symbol)}

\* StateMachine.find_particular_symbol_edges, the filter consumed.
find_particular_symbol_edges(g, symbol) ==
    {node \in g.nodes : get_next_node(g, node, symbol) # {None}}

\* tuple(sorted(s)) of a set of integers.
RECURSIVE tuple_sorted(_)
tuple_sorted(s) ==
    IF s = {} THEN <<>>
    ELSE LET m == CHOOSE x \in s : \A y \in s : x <= y
         IN <<m>> \o tuple_sorted(s \ {m})

(***************************************************************************)
(* StateMachine._build_ndsm and _parse_regex.  A frame is one activation   *)
(* of _parse_regex; at names the statement it executes next.               *)
(***************************************************************************)
Frame(r, begin_node) ==
    [regex |-> r, begin_node |-> begin_node, end_node |-> -1, at |-> "enter",
     shift_node |-> -1, ret1 |-> -1]

Top == frames[Len(frames)]
SetTop(f) == [frames EXCEPT ![Len(frames)] = f]

\* The branch the if/elif chain of _parse_regex takes.
branch(r) ==
    CASE r.op = "PLUS" -> "plus"
      [] r.op = "CONCAT" -> "concat"
      [] r.op = "STAR" -> "star"
      [] is_neutral(r) -> "neutral"
      [] r.op = "UNDEFINED" -> "literal"
      [] OTHER -> "return"

\* No subset construction has run.
NoHistory ==
    /\ sym_order = REGEX_ALPHABET
    /\ pushes = <<>>
    /\ pops = <<>>
    /\ first_graph = DSMGraph

\* No query is running and none has run.
NoQuery ==
    /\ args = <<>>
    /\ in_processing = {}
    /\ reachable_nodes = {}
    /\ queue = <<>>
    /\ used = {}
    /\ result = <<>>
    /\ log = <<>>

Init ==
    /\ pc = "build_ndsm"
    /\ regex \in Trees
    /\ frames = <<>>
    /\ ret = -1
    /\ ndsm_graph = NDSMGraph
    /\ graph = DSMGraph
    /\ stack = <<>>
    /\ curr_node = None
    /\ sym_idx = 0
    /\ exception = "None"
    /\ NoQuery
    /\ NoHistory

\* _build_ndsm up to its call of _parse_regex.
BuildNdsm ==
    /\ pc = "build_ndsm"
    /\ ndsm_graph' = get_new_node(NDSMGraph)
    /\ frames' = <<Frame(regex, NDSMGraph.nodes_pointer)>>
    /\ pc' = "parse"
    /\ UNCHANGED <<regex, ret, graph, stack, curr_node, sym_idx, exception, query_vars, more_vars>>

\* end_node = graph.get_new_node(), and the choice of the branch.
ParseEnter ==
    /\ pc = "parse" /\ Top.at = "enter"
    /\ ndsm_graph' = get_new_node(ndsm_graph)
    /\ frames' = SetTop([Top EXCEPT !.end_node = ndsm_graph.nodes_pointer,
                                    !.at = branch(Top.regex)])
    /\ UNCHANGED <<pc, regex, ret, graph, stack, curr_node, sym_idx, exception, query_vars, more_vars>>

ParsePlus ==
    /\ pc = "parse"
    /\ \/ /\ Top.at = "plus"
          /\ frames' = Append(SetTop([Top EXCEPT !.at = "plus_ex2"]),
                              Frame(Top.regex.ex1, Top.begin_node))
          /\ UNCHANGED ndsm_graph
       \/ /\ Top.at = "plus_ex2"
          /\ frames' = Append(SetTop([Top EXCEPT !.at = "plus_edges", !.ret1 = ret]),
                              Frame(Top.regex.ex2, Top.begin_node))
          /\ UNCHANGED ndsm_graph
       \/ /\ Top.at = "plus_edges"
          /\ ndsm_graph' = add_edge(add_edge(ndsm_graph, Top.ret1, Top.end_node, EPSILON),
                                    ret, Top.end_node, EPSILON)
          /\ frames' = SetTop([Top EXCEPT !.at = "return"])
    /\ UNCHANGED <<pc, regex, ret, graph, stack, curr_node, sym_idx, exception, query_vars, more_vars>>

ParseConcat ==
    /\ pc = "parse"
    /\ \/ /\ Top.at = "concat"
          /\ frames' = Append(SetTop([Top EXCEPT !.at = "concat_ex2"]),
                              Frame(Top.regex.ex1, Top.begin_node))
          /\ UNCHANGED ndsm_graph
       \/ /\ Top.at = "concat_ex2"
          /\ frames' = Append(SetTop([Top EXCEPT !.at = "concat_edge", !.ret1 = ret]),
                              Frame(Top.regex.ex2, ret))
          /\ UNCHANGED ndsm_graph
       \/ /\ Top.at = "concat_edge"
          /\ ndsm_graph' = add_edge(ndsm_graph, ret, Top.end_node, EPSILON)
          /\ frames' = SetTop([Top EXCEPT !.at = "return"])
    /\ UNCHANGED <<pc, regex, ret, graph, stack, curr_node, sym_idx, exception, query_vars, more_vars>>

ParseStar ==
    /\ pc = "parse"
    /\ \/ /\ Top.at = "star"
          /\ LET shift_node == ndsm_graph.nodes_pointer
             IN /\ ndsm_graph' = add_edge(get_new_node(ndsm_graph),
                                          Top.begin_node, shift_node, EPSILON)
                /\ frames' = Append(SetTop([Top EXCEPT !.at = "star_edges",
                                                       !.shift_node = shift_node]),
                                    Frame(Top.regex.ex1, shift_node))
       \/ /\ Top.at = "star_edges"
          /\ ndsm_graph' = add_edge(add_edge(ndsm_graph, ret, Top.shift_node, EPSILON),
                                    Top.shift_node, Top.end_node, EPSILON)
          /\ frames' = SetTop([Top EXCEPT !.at = "return"])
    /\ UNCHANGED <<pc, regex, ret, graph, stack, curr_node, sym_idx, exception, query_vars, more_vars>>

ParseNeutral ==
    /\ pc = "parse" /\ Top.at = "neutral"
    /\ ndsm_graph' = add_edge(ndsm_graph, Top.begin_node, Top.end_node, EPSILON)
    /\ frames' = SetTop([Top EXCEPT !.at = "return"])
    /\ UNCHANGED <<pc, regex, ret, graph, stack, curr_node, sym_idx, exception, query_vars, more_vars>>

ParseLiteral ==
    /\ pc = "parse" /\ Top.at = "literal"
    /\ ndsm_graph' = add_edge(ndsm_graph, Top.begin_node, Top.end_node, Top.regex.string)
    /\ frames' = SetTop([Top EXCEPT !.at = "return"])
    /\ UNCHANGED <<pc, regex, ret, graph, stack, curr_node, sym_idx, exception, query_vars, more_vars>>

\* return end_node; the outermost call returns to _build_ndsm.
ParseReturn ==
    /\ pc = "parse" /\ Top.at = "return"
    /\ ret' = Top.end_node
    /\ frames' = SubSeq(frames, 1, Len(frames) - 1)
    /\ pc' = IF Len(frames) = 1 THEN "parsed" ELSE "parse"
    /\ UNCHANGED <<regex, ndsm_graph, graph, stack, curr_node, sym_idx, exception, query_vars, more_vars>>

\* graph.add_finite_node(finite_node); return graph.
AddFiniteNode ==
    /\ pc = "parsed"
    /\ ndsm_graph' = add_finite_node(ndsm_graph, ret)
    /\ pc' = "build_dsm"
    /\ UNCHANGED <<regex, frames, ret, graph, stack, curr_node, sym_idx, exception, query_vars, more_vars>>

(***************************************************************************)
(* StateMachine._build_dsm: subset construction.                           *)
(***************************************************************************)
\* all(...) in the place of any(...).
is_finite_all(g, node) == \A n \in Range(node) : is_finite_node(g, n)

\* any(map(lambda node: ndsm_graph.is_finite_node(node), curr_node))
is_finite(g, node) == \E n \in Range(node) : is_finite_node(g, n)

\* The test "if next_node:" left out.
truthy_always(node) == TRUE

\* "if next_node:" is false on the empty tuple only.
truthy(node) == node # <<>>

\* The orders a loop can take the symbols of REGEX_ALPHABET in.
SymbolOrders ==
    {order \in [1..Len(REGEX_ALPHABET) -> Range(REGEX_ALPHABET)] :
        \A i, j \in 1..Len(REGEX_ALPHABET) : i # j => order[i] # order[j]}

\* The worklist loses the nodes that wait before the one it gives up.
Remove_and_before(seq, i) == SubSeq(seq, i + 1, Len(seq))

\* seq without its i-th element.
Remove(seq, i) == SubSeq(seq, 1, i - 1) \o SubSeq(seq, i + 1, Len(seq))

\* graph = DSMGraph() up to stack.append(start_node).
BuildDsm ==
    /\ pc = "build_dsm"
    /\ \E closure \in get_reachable_nodes_outcomes(ndsm_graph, 0, EPSILON) :
          LET start_node == tuple_sorted(closure)
          IN /\ graph' = [get_new_node(DSMGraph) EXCEPT !.start_node = start_node]
             /\ stack' = <<start_node>>
             /\ pushes' = <<start_node>>
    /\ pops' = <<>>
    /\ ndsm_graph' = TouchAll(ndsm_graph, reachable_reads(ndsm_graph, 0, EPSILON))
    /\ pc' = "dsm_while"
    /\ UNCHANGED <<regex, frames, ret, curr_node, sym_idx, exception, query_vars,
                   sym_order, first_graph>>

\* The head of one pass of "while stack": the worklist gives up its i-th
\* node, which is marked, and the for loop is to take the symbols in order.
DsmTake(i, order) ==
    /\ pc = "dsm_while" /\ stack # <<>>
    /\ curr_node' = stack[i]
    /\ stack' = Remove(stack, i)
    /\ pops' = Append(pops, stack[i])
    /\ graph' = IF is_finite(ndsm_graph, stack[i])
                THEN add_finite_node(graph, stack[i])
                ELSE graph
    /\ sym_order' = order
    /\ sym_idx' = 1
    /\ pc' = "dsm_for"
    /\ UNCHANGED <<regex, frames, ret, ndsm_graph, exception, query_vars, pushes,
                   first_graph>>

\* curr_node = stack.pop() and the marking of curr_node.
DsmPop == DsmTake(Len(stack), REGEX_ALPHABET)

\* One pass of the body of "for sym in REGEX_ALPHABET".
DsmFor ==
    /\ pc = "dsm_for"
    /\ LET sym == sym_order[sym_idx]
           reached == get_reachable_nodes_from(ndsm_graph, curr_node, sym)
       IN IF reached.exception # "None"
          THEN /\ exception' = reached.exception
               /\ pc' = "raised"
               /\ UNCHANGED <<ndsm_graph, graph, stack, sym_idx, pushes>>
          ELSE /\ ndsm_graph' = TouchAll(ndsm_graph,
                                         reachable_from_reads(ndsm_graph, curr_node, sym))
               /\ \E value \in get_reachable_nodes_from_outcomes(ndsm_graph, curr_node, sym) :
                     LET next_node == tuple_sorted(value)
                     IN IF truthy(next_node)
                        THEN /\ IF ~is_exist_node(graph, next_node)
                                THEN /\ stack' = Append(stack, next_node)
                                     /\ pushes' = Append(pushes, next_node)
                                ELSE UNCHANGED <<stack, pushes>>
                             /\ graph' = add_edge(graph, curr_node, next_node, sym)
                        ELSE UNCHANGED <<graph, stack, pushes>>
               /\ IF sym_idx < Len(sym_order)
                  THEN sym_idx' = sym_idx + 1 /\ pc' = "dsm_for"
                  ELSE sym_idx' = 0 /\ pc' = "dsm_while"
               /\ UNCHANGED exception
    /\ UNCHANGED <<regex, frames, ret, curr_node, query_vars, sym_order, pops,
                   first_graph>>

\* The while loop ends: return graph.
DsmReturn ==
    /\ pc = "dsm_while" /\ stack = <<>>
    /\ pc' = "done"
    /\ UNCHANGED <<regex, frames, ret, ndsm_graph, graph, stack, curr_node, sym_idx,
                   exception, query_vars, more_vars>>

Next ==
    \/ BuildNdsm
    \/ ParseEnter
    \/ ParsePlus
    \/ ParseConcat
    \/ ParseStar
    \/ ParseNeutral
    \/ ParseLiteral
    \/ ParseReturn
    \/ AddFiniteNode
    \/ BuildDsm
    \/ DsmPop
    \/ DsmFor
    \/ DsmReturn

Spec == Init /\ [][Next]_vars

(***************************************************************************)
(* Two constructions from structurally equal trees: when the first is      *)
(* done its DSMGraph is kept and StateMachine.__init__ runs again on the   *)
(* same tree, free to pop the sets in another order.                       *)
(***************************************************************************)
Rebuild ==
    /\ pc = "done" /\ first_graph = DSMGraph
    /\ first_graph' = graph
    /\ pc' = "build_ndsm"
    /\ frames' = <<>>
    /\ ret' = -1
    /\ ndsm_graph' = NDSMGraph
    /\ graph' = DSMGraph
    /\ stack' = <<>>
    /\ curr_node' = None
    /\ sym_idx' = 0
    /\ pushes' = <<>>
    /\ pops' = <<>>
    /\ UNCHANGED <<regex, exception, query_vars, sym_order>>

NextTwice == Next \/ Rebuild

SpecTwice == Init /\ [][NextTwice]_vars

(***************************************************************************)
(* StateMachine._build_dsm when the worklist gives up any of its nodes and *)
(* the for loop takes the symbols in any order.                            *)
(***************************************************************************)
DsmTakeAny == \E i \in 1..Len(stack) : \E order \in SymbolOrders : DsmTake(i, order)

NextAnyOrder ==
    \/ BuildNdsm
    \/ ParseEnter
    \/ ParsePlus
    \/ ParseConcat
    \/ ParseStar
    \/ ParseNeutral
    \/ ParseLiteral
    \/ ParseReturn
    \/ AddFiniteNode
    \/ BuildDsm
    \/ DsmTakeAny
    \/ DsmFor
    \/ DsmReturn

SpecAnyOrder == Init /\ [][NextAnyOrder]_vars

(***************************************************************************)
(* The graphs the queries are run on: every graph add_edge builds from at  *)
(* most MaxEdges edges over MaxNodes one-member composite nodes.           *)
(***************************************************************************)
GraphNodes == {<<i>> : i \in 0..(MaxNodes - 1)}
GraphKeys == {REGEX_ALPHABET[1], EPSILON}
GraphEdges == GraphNodes \X GraphKeys \X GraphNodes

\* The sets of at most k edges taken from candidates.
RECURSIVE EdgeSets(_, _)
EdgeSets(k, candidates) ==
    IF k = 0 THEN {{}}
    ELSE LET smaller == EdgeSets(k - 1, candidates)
         IN smaller \cup {E \cup {e} : E \in smaller, e \in candidates}

\* The graph after add_edge(source, target, key) for every <<source, key, target>> of E.
RECURSIVE GraphOf(_)
GraphOf(E) ==
    IF E = {} THEN DSMGraph
    ELSE LET e == CHOOSE x \in E : TRUE
         IN add_edge(GraphOf(E \ {e}), e[1], e[3], e[2])

Graphs == {GraphOf(E) : E \in EdgeSets(MaxEdges, GraphEdges)}

\* The graph after add_finite_node(node) for every node of F.
RECURSIVE MarkAll(_, _)
MarkAll(g, F) ==
    IF F = {} THEN g
    ELSE LET node == CHOOSE x \in F : TRUE
         IN add_finite_node(MarkAll(g, F \ {node}), node)

\* Graphs with accepting nodes and a start node, for the distance queries,
\* which do not read the label of an edge; their edges have one label.
OneLabelEdges == GraphNodes \X {REGEX_ALPHABET[1]} \X GraphNodes
MarkedGraphs ==
    {[MarkAll(GraphOf(E), F) EXCEPT !.start_node = <<0>>] :
        E \in EdgeSets(MaxEdges, OneLabelEdges), F \in SUBSET GraphNodes}

(***************************************************************************)
(* StateMachine._build_dsm on any NDSMGraph: every graph add_edge builds   *)
(* from at most MaxEdges edges over the nodes 0 .. MaxNodes - 1, node 0    *)
(* being the start, with one accepting node.                               *)
(***************************************************************************)
NdsmNodes == 0..(MaxNodes - 1)
NdsmEdges == NdsmNodes \X GraphKeys \X NdsmNodes

\* The NDSMGraph after add_edge(source, target, key) for every
\* <<source, key, target>> of E.
RECURSIVE NdsmOf(_)
NdsmOf(E) ==
    IF E = {} THEN NDSMGraph
    ELSE LET e == CHOOSE x \in E : TRUE
         IN add_edge(NdsmOf(E \ {e}), e[1], e[3], e[2])

\* The nodes that the edges of E lead to from a node of S, S included.
RECURSIVE ReachedBy(_, _)
ReachedBy(E, S) ==
    LET T == S \cup {e[3] : e \in {x \in E : x[1] \in S}}
    IN IF T = S THEN S ELSE ReachedBy(E, T)

\* The edge sets whose every edge can be reached from node 0; subset
\* construction reads no other edge.
NdsmEdgeSets ==
    {E \in EdgeSets(MaxEdges, NdsmEdges) : \A e \in E : e[1] \in ReachedBy(E, {0})}

Ndsms ==
    {add_finite_node(NdsmOf(E), finite_node) :
        E \in NdsmEdgeSets, finite_node \in NdsmNodes}

InitSubset ==
    /\ pc = "build_dsm"
    /\ ndsm_graph \in Ndsms
    /\ regex = Neutral
    /\ frames = <<>>
    /\ ret = -1
    /\ graph = DSMGraph
    /\ stack = <<>>
    /\ curr_node = None
    /\ sym_idx = 0
    /\ exception = "None"
    /\ NoQuery
    /\ NoHistory

NextSubset ==
    \/ BuildDsm
    \/ DsmPop
    \/ DsmFor
    \/ DsmReturn

SpecSubset == InitSubset /\ [][NextSubset]_vars

\* The variables of the construction, which no query touches.
NoBuild ==
    /\ regex = Neutral
    /\ frames = <<>>
    /\ ret = -1
    /\ ndsm_graph = NDSMGraph
    /\ stack = <<>>
    /\ curr_node = None
    /\ sym_idx = 0
    /\ NoHistory

(***************************************************************************)
(* NDSMGraph.get_reachable_nodes, one pass of its while loop at a time.    *)
(***************************************************************************)
InitReach ==
    /\ pc = "idle"
    /\ graph \in Graphs
    /\ exception = "None"
    /\ NoBuild
    /\ NoQuery

\* The call, up to the while loop.
ReachCall ==
    /\ pc = "idle"
    /\ \E node \in GraphNodes, symbol \in GraphKeys :
          /\ args' = [op |-> "get_reachable_nodes", node |-> node, symbol |-> symbol]
          /\ in_processing' = initial_in_processing(graph, node, symbol)
          /\ graph' = TouchAll(graph, initial_reads(graph, node, symbol))
    /\ reachable_nodes' = {}
    /\ log' = <<>>
    /\ pc' = "reach_while"
    /\ UNCHANGED <<exception, build_vars, queue, used, result>>

\* One pass of the loop: pop takes any element of in_processing.
ReachLoop ==
    /\ pc = "reach_while" /\ in_processing # {}
    /\ \E curr \in in_processing :
          /\ reachable_nodes' = reachable_nodes \cup {curr}
          /\ in_processing' = loop_body(graph, in_processing, curr, reachable_nodes \cup {curr})
          /\ graph' = Touch(graph, curr, EPSILON)
          /\ log' = Append(log, curr)
    /\ UNCHANGED <<pc, exception, build_vars, args, queue, used, result>>

ReachReturn ==
    /\ pc = "reach_while" /\ in_processing = {}
    /\ result' = reachable_nodes
    /\ pc' = "returned"
    /\ UNCHANGED <<graph, exception, build_vars, args, in_processing, reachable_nodes, queue, used, log>>

NextReach ==
    \/ ReachCall
    \/ ReachLoop
    \/ ReachReturn

SpecReach == InitReach /\ [][NextReach]_vars

(***************************************************************************)
(* DSMGraph.bfs, distance_from_start and distance_to_finite, one pass of   *)
(* the while loop at a time.  A queue entry is <<node, distance>>.         *)
(***************************************************************************)
\* return None of bfs and distance_to_finite.
NoDistance == -1

\* The orders a for loop can take the elements of the set S in.
Orders(S) ==
    {order \in [1..Cardinality(S) -> S] :
        \A i, j \in 1..Cardinality(S) : i # j => order[i] # order[j]}

\* queue.put((node, distance)) instead of distance + 1.
put_all_same_distance(q, order, distance) ==
    q \o [i \in 1..Len(order) |-> <<order[i], distance>>]

\* The entries go to the front of the queue: a stack.
put_all_in_front(q, order, distance) ==
    [i \in 1..Len(order) |-> <<order[i], distance + 1>>] \o q

\* queue.put((node, distance + 1)) for the nodes of the for loop, in its order.
put_all(q, order, distance) ==
    q \o [i \in 1..Len(order) |-> <<order[i], distance + 1>>]

InitBfs ==
    /\ pc = "idle"
    /\ graph \in Graphs
    /\ exception = "None"
    /\ NoBuild
    /\ NoQuery

InitDistance ==
    /\ pc = "idle"
    /\ graph \in MarkedGraphs
    /\ exception = "None"
    /\ NoBuild
    /\ NoQuery

\* bfs(source, target) up to its while loop.
BfsCall ==
    /\ pc = "idle"
    /\ \E source \in GraphNodes, target \in GraphNodes :
          /\ args' = [op |-> "bfs", source |-> source, target |-> target]
          /\ queue' = <<<<source, 0>>>>
    /\ used' = {}
    /\ log' = <<>>
    /\ pc' = "bfs_while"
    /\ UNCHANGED <<graph, exception, build_vars, in_processing, reachable_nodes, result>>

\* distance_from_start(node): bfs(self.start_node, node) up to its while loop.
DistanceFromStartCall ==
    /\ pc = "idle"
    /\ \E node \in GraphNodes :
          /\ args' = [op |-> "distance_from_start", source |-> graph.start_node,
                       target |-> node]
          /\ queue' = <<<<graph.start_node, 0>>>>
    /\ used' = {}
    /\ log' = <<>>
    /\ pc' = "bfs_while"
    /\ UNCHANGED <<graph, exception, build_vars, in_processing, reachable_nodes, result>>

\* One pass of the while loop of bfs.
BfsLoop ==
    /\ pc = "bfs_while" /\ queue # <<>>
    /\ LET node == Head(queue)[1]
           distance == Head(queue)[2]
       IN /\ used' = used \cup {node}
          /\ log' = Append(log, node)
          /\ IF node = args.target
             THEN /\ result' = distance
                  /\ pc' = "returned"
                  /\ queue' = Tail(queue)
                  /\ UNCHANGED graph
             ELSE /\ \E order \in Orders(get_neighbors(graph, node) \ (used \cup {node})) :
                        queue' = put_all(Tail(queue), order, distance)
                  /\ graph' = TouchRow(graph, node)
                  /\ UNCHANGED <<pc, result>>
    /\ UNCHANGED <<exception, build_vars, args, in_processing, reachable_nodes>>

\* The queue is empty: return None.
BfsReturnNone ==
    /\ pc = "bfs_while" /\ queue = <<>>
    /\ result' = NoDistance
    /\ pc' = "returned"
    /\ UNCHANGED <<graph, exception, build_vars, args, in_processing, reachable_nodes,
                   queue, used, log>>

\* distance_to_finite(source) up to its while loop.
DistanceToFiniteCall ==
    /\ pc = "idle"
    /\ \E source \in GraphNodes :
          /\ args' = [op |-> "distance_to_finite", source |-> source]
          /\ queue' = <<<<source, 0>>>>
    /\ used' = {}
    /\ log' = <<>>
    /\ pc' = "dtf_while"
    /\ UNCHANGED <<graph, exception, build_vars, in_processing, reachable_nodes, result>>

\* One pass of the while loop of distance_to_finite.
DtfLoop ==
    /\ pc = "dtf_while" /\ queue # <<>>
    /\ LET node == Head(queue)[1]
           distance == Head(queue)[2]
       IN /\ used' = used \cup {node}
          /\ log' = Append(log, node)
          /\ IF is_finite_node(graph, node)
             THEN /\ result' = distance
                  /\ pc' = "returned"
                  /\ queue' = Tail(queue)
                  /\ UNCHANGED graph
             ELSE /\ \E order \in Orders(get_neighbors(graph, node) \ (used \cup {node})) :
                        queue' = put_all(Tail(queue), order, distance)
                  /\ graph' = TouchRow(graph, node)
                  /\ UNCHANGED <<pc, result>>
    /\ UNCHANGED <<exception, build_vars, args, in_processing, reachable_nodes>>

DtfReturnNone ==
    /\ pc = "dtf_while" /\ queue = <<>>
    /\ result' = NoDistance
    /\ pc' = "returned"
    /\ UNCHANGED <<graph, exception, build_vars, args, in_processing, reachable_nodes,
                   queue, used, log>>

NextBfs ==
    \/ BfsCall
    \/ BfsLoop
    \/ BfsReturnNone

SpecBfs == InitBfs /\ [][NextBfs]_vars

NextDistance ==
    \/ DistanceFromStartCall
    \/ BfsLoop
    \/ BfsReturnNone
    \/ DistanceToFiniteCall
    \/ DtfLoop
    \/ DtfReturnNone

SpecDistance == InitDistance /\ [][NextDistance]_vars

(***************************************************************************)
(* The queries of NDSMGraph, DSMGraph and StateMachine on a finished       *)
(* graph, each one call from "idle".                                       *)
(***************************************************************************)
QueryGraphs ==
    {[MarkAll(g, F) EXCEPT !.start_node = <<0>>] :
        g \in Graphs, F \in {{}, {<<MaxNodes - 1>>}}}

\* The node sequences given to get_reachable_nodes_from.
NodeSeqs == {<<>>} \cup {<<n>> : n \in GraphNodes} \cup {<<n, m>> : n, m \in GraphNodes}

InitQuery ==
    /\ pc = "idle"
    /\ graph \in QueryGraphs
    /\ exception = "None"
    /\ NoBuild
    /\ NoQuery

\* What a query that returns leaves unchanged besides graph, args and result.
Returned ==
    /\ pc' = "returned"
    /\ UNCHANGED <<exception, build_vars, in_processing, reachable_nodes, queue, used, log>>

GetEdgesForm ==
    /\ pc = "idle"
    /\ \E source \in GraphNodes, key \in GraphKeys :
          /\ args' = [op |-> "get_edges_form", source |-> source, key |-> key]
          /\ result' = get_edges_form(graph, source, key)
          /\ graph' = Touch(graph, source, key)
    /\ Returned

GetReachableNodes ==
    /\ pc = "idle"
    /\ \E node \in GraphNodes, symbol \in GraphKeys :
          /\ args' = [op |-> "get_reachable_nodes", node |-> node, symbol |-> symbol]
          /\ result' = get_reachable_nodes(graph, node, symbol)
          /\ graph' = TouchAll(graph, reachable_reads(graph, node, symbol))
    /\ Returned

GetReachableNodesFrom ==
    /\ pc = "idle"
    /\ \E nodes \in NodeSeqs, symbol \in GraphKeys :
          LET reached == get_reachable_nodes_from(graph, nodes, symbol)
          IN /\ args' = [op |-> "get_reachable_nodes_from", nodes |-> nodes,
                          symbol |-> symbol]
             /\ IF reached.exception # "None"
                THEN /\ exception' = reached.exception
                     /\ pc' = "raised"
                     /\ UNCHANGED <<graph, result>>
                ELSE /\ result' = reached.value
                     /\ graph' = TouchAll(graph, reachable_from_reads(graph, nodes, symbol))
                     /\ pc' = "returned"
                     /\ UNCHANGED exception
    /\ UNCHANGED <<build_vars, in_processing, reachable_nodes, queue, used, log>>

GetNeighbors ==
    /\ pc = "idle"
    /\ \E node \in GraphNodes :
          /\ args' = [op |-> "get_neighbors", node |-> node]
          /\ result' = get_neighbors(graph, node)
          /\ graph' = TouchRow(graph, node)
    /\ Returned

GetNextNode ==
    /\ pc = "idle"
    /\ \E node \in GraphNodes, symbol \in GraphKeys :
          /\ args' = [op |-> "get_next_node", node |-> node, symbol |-> symbol]
          /\ result' \in get_next_node(graph, node, symbol)
          /\ graph' = TouchAll(graph, reachable_reads(graph, node, symbol))
    /\ Returned

NMoves ==
    /\ pc = "idle"
    /\ \E node \in GraphNodes, symbol \in GraphKeys, moves_count \in 0..MaxMoves :
          \E run \in n_moves(graph, node, symbol, moves_count) :
             /\ args' = [op |-> "n_moves", node |-> node, symbol |-> symbol,
                          moves_count |-> moves_count]
             /\ result' = run.value
             /\ graph' = TouchAll(graph, run.reads)
    /\ Returned

IsExistNode ==
    /\ pc = "idle"
    /\ \E node \in GraphNodes :
          /\ args' = [op |-> "is_exist_node", node |-> node]
          /\ result' = is_exist_node(graph, node)
    /\ UNCHANGED graph
    /\ Returned

IsFiniteNode ==
    /\ pc = "idle"
    /\ \E node \in GraphNodes :
          /\ args' = [op |-> "is_finite_node", node |-> node]
          /\ result' = is_finite_node(graph, node)
    /\ UNCHANGED graph
    /\ Returned

FindParticularSymbolEdges ==
    /\ pc = "idle"
    /\ \E symbol \in GraphKeys :
          /\ args' = [op |-> "find_particular_symbol_edges", symbol |-> symbol]
          /\ result' = find_particular_symbol_edges(graph, symbol)
          /\ graph' = TouchAll(graph, UNION {reachable_reads(graph, node, symbol) :
                                                node \in graph.nodes})
    /\ Returned

NextQuery ==
    \/ GetEdgesForm
    \/ GetReachableNodes
    \/ GetReachableNodesFrom
    \/ GetNeighbors
    \/ GetNextNode
    \/ NMoves
    \/ IsExistNode
    \/ IsFiniteNode
    \/ FindParticularSymbolEdges
    \/ BfsCall
    \/ DistanceFromStartCall
    \/ BfsLoop
    \/ BfsReturnNone
    \/ DistanceToFiniteCall
    \/ DtfLoop
    \/ DtfReturnNone

SpecQuery == InitQuery /\ [][NextQuery]_vars

(***************************************************************************)
(* Reference notions the claims are stated with.                           *)
(***************************************************************************)
\* The strings over the alphabet of length at most MaxLen.
Strings == UNION {[1..n -> Alphabet] : n \in 0..MaxLen}

\* The language of an expression: w is a member of the language of r.
RECURSIVE Matches(_, _)
Matches(r, w) ==
    CASE r.op = "UNDEFINED" -> w = <<r.string>>
      [] r.op = "NEUTRAL" -> w = <<>>
      [] r.op = "PLUS" -> Matches(r.ex1, w) \/ Matches(r.ex2, w)
      [] r.op = "CONCAT" ->
            \E i \in 0..Len(w) :
                Matches(r.ex1, SubSeq(w, 1, i)) /\ Matches(r.ex2, SubSeq(w, i + 1, Len(w)))
      [] r.op = "STAR" ->
            \/ w = <<>>
            \/ \E i \in 1..Len(w) :
                  Matches(r.ex1, SubSeq(w, 1, i)) /\ Matches(r, SubSeq(w, i + 1, Len(w)))
      [] OTHER -> FALSE

\* The nodes a walk of get_next_node along w from node can end in (None when a
\* transition is missing).
RECURSIVE Walk(_, _, _)
Walk(g, node, w) ==
    IF w = <<>> \/ node = None THEN {node}
    ELSE UNION {Walk(g, n, Tail(w)) : n \in get_next_node(g, node, Head(w))}

\* The nodes of g that a path of edges of any label leads to from the set S.
RECURSIVE ReachableSet(_, _)
ReachableSet(g, S) ==
    LET T == S \cup UNION {get_neighbors(g, n) : n \in S}
    IN IF T = S THEN S ELSE ReachableSet(g, T)

(***************************************************************************)
(* Claims about the construction.                                          *)
(***************************************************************************)
\* C1: for a tree of Literal, Alternation, Concatenation, Repetition and
\* Neutral nodes, the walk of get_next_node from start_node along a string
\* ends in an accepting node exactly when the string is in the language of
\* the expression.
C1_AcceptsLanguage ==
    (pc = "done" /\ ~HasMalformedTag(regex)) =>
        \A w \in Strings : \A f \in Walk(graph, graph.start_node, w) :
            (f # None /\ f \in graph.finite_nodes) <=> Matches(regex, w)

\* A finished construction from a concatenation, where a string of length
\* MaxLen is accepted and another string is rejected at a missing transition.
C1_Witness ==
    /\ pc = "done" /\ ~HasMalformedTag(regex)
    /\ regex.op = "CONCAT"
    /\ \E w \in Strings : Len(w) = MaxLen /\ Matches(regex, w)
                          /\ Walk(graph, graph.start_node, w) \subseteq graph.finite_nodes
    /\ \E w \in Strings : Walk(graph, graph.start_node, w) = {None}

\* C2: in the DSM graph every (node, symbol) pair with symbol in the
\* alphabet has at most one target, in the stored edge set and in
\* get_reachable_nodes(node, symbol).
C2_AtMostOneTarget ==
    \A node \in graph.nodes \cup {graph.start_node} : \A sym \in Alphabet :
        /\ Cardinality(get_edges_form(graph, node, sym)) <= 1
        /\ Cardinality(get_reachable_nodes(graph, node, sym)) <= 1

\* A finished automaton with a node that has a transition for every symbol
\* and at least three nodes.
C2_Witness ==
    /\ pc = "done"
    /\ Cardinality(graph.nodes) >= 3
    /\ \E node \in graph.nodes : \A sym \in Alphabet :
           Cardinality(get_edges_form(graph, node, sym)) = 1

\* C3: after subset construction a composite node reachable from start_node
\* is accepting in the DSM graph exactly when one of its members is accepting
\* in the NDSM graph.
C3_AcceptingIffMember ==
    pc = "done" =>
        \A C \in ReachableSet(graph, {graph.start_node}) :
            (C \in graph.finite_nodes) <=> (Range(C) \cap ndsm_graph.finite_nodes # {})

\* A finished automaton with an accepting and a non-accepting composite of
\* two or more members each.
C3_Witness ==
    /\ pc = "done"
    /\ \E C \in ReachableSet(graph, {graph.start_node}) :
           Len(C) >= 2 /\ C \in graph.finite_nodes
    /\ \E C \in ReachableSet(graph, {graph.start_node}) :
           Len(C) >= 2 /\ C \notin graph.finite_nodes

\* C4: a tree with an unrecognized operation tag makes the construction fail
\* with MalformedExpression; _parse_regex never finishes on it leaving an end
\* node that no edge connects.
C4_MalformedFails ==
    (pc \notin {"build_ndsm", "parse"} /\ HasMalformedTag(regex)) =>
        /\ exception = "MalformedExpression"
        /\ 0..(ndsm_graph.nodes_pointer - 1) \subseteq ndsm_graph.nodes

\* C6: in every state of the construction the accepting nodes of the NDSM
\* graph and of the DSM graph are nodes of that graph (stated for trees
\* without an unrecognized tag).
C6_AcceptingAreNodes ==
    ~HasMalformedTag(regex) =>
        /\ ndsm_graph.finite_nodes \subseteq ndsm_graph.nodes
        /\ graph.finite_nodes \subseteq graph.nodes

(***************************************************************************)
(* Claims about the queries.                                               *)
(***************************************************************************)
\* S holds every target of an EPSILON edge that leaves a node of S.
EpsilonClosed(g, S) == \A x \in S : get_edges_form(g, x, EPSILON) \subseteq S

\* C7: get_reachable_nodes(n, EPSILON) ends on every graph, with or without
\* EPSILON cycles, after taking each node at most once, and returns the
\* least set that holds n and is closed under EPSILON edges.
C7_EpsilonClosure ==
    (pc \in {"reach_while", "returned"} /\ args.symbol = EPSILON) =>
        /\ \A i, j \in 1..Len(log) : i # j => log[i] # log[j]
        /\ Len(log) <= Cardinality(GraphNodes)
        /\ pc = "returned" =>
              /\ args.node \in result
              /\ EpsilonClosed(graph, result)
              /\ \A S \in SUBSET GraphNodes :
                     (args.node \in S /\ EpsilonClosed(graph, S)) => result \subseteq S

\* A closure of three nodes returned on a graph with an EPSILON edge back to
\* the node the closure was asked for.
C7_Witness ==
    /\ pc = "returned" /\ args.symbol = EPSILON
    /\ Cardinality(result) >= 3
    /\ \E x \in result \ {args.node} : args.node \in get_edges_form(graph, x, EPSILON)

\* The nodes that a walk of exactly k edges leads to from source.
RECURSIVE StepsFrom(_, _, _)
StepsFrom(g, source, k) ==
    IF k = 0 THEN {source}
    ELSE UNION {get_neighbors(g, n) : n \in StepsFrom(g, source, k - 1)}

\* The least number of edges of a path from source to a node of targets,
\* NoDistance when there is no path.
Distance(g, source, targets) ==
    LET lengths == {k \in 0..Cardinality(GraphNodes) : StepsFrom(g, source, k) \cap targets # {}}
    IN IF lengths = {} THEN NoDistance
       ELSE CHOOSE k \in lengths : \A j \in lengths : k <= j

\* No entry of the queue is farther than the number of nodes: a pass of the
\* loop takes one entry and puts entries of a greater distance, so the loop
\* ends.
QueueBounded == \A i \in 1..Len(queue) : queue[i][2] <= Cardinality(GraphNodes)

\* C8: bfs(source, target) ends on every graph, cyclic or not, and returns
\* the least number of edges of a path from source to target, 0 when they
\* are equal and None when there is no path.
C8_ShortestDistance ==
    (pc \in {"bfs_while", "returned"} /\ args.op = "bfs") =>
        /\ QueueBounded
        /\ pc = "returned" => result = Distance(graph, args.source, {args.target})

\* bfs returned 2 on a graph where the target has an edge back to the source.
C8_Witness ==
    /\ pc = "returned" /\ args.op = "bfs"
    /\ result = 2
    /\ args.source \in get_neighbors(graph, args.target)

\* C9: distance_to_finite(source) ends on every graph and returns the least
\* number of edges from source to an accepting node, 0 when source is
\* accepting and None when no accepting node can be reached; and
\* distance_from_start(start_node) is 0.
C9_NearestAccepting ==
    /\ (pc \in {"dtf_while", "returned"} /\ args.op = "distance_to_finite") =>
          /\ QueueBounded
          /\ pc = "returned" =>
                /\ result = Distance(graph, args.source, graph.finite_nodes)
                /\ is_finite_node(graph, args.source) => result = 0
    /\ (pc = "returned" /\ args.op = "distance_from_start"
           /\ args.target = graph.start_node) => result = 0

\* distance_to_finite returned 1 with a second accepting node farther away.
C9_Witness ==
    /\ pc = "returned" /\ args.op = "distance_to_finite"
    /\ result = 1
    /\ \E f \in graph.finite_nodes : Distance(graph, args.source, {f}) = 2

\* C5: get_reachable_nodes_from given an empty collection of nodes returns
\* the empty set for every symbol and does not fail.
C5_EmptySetReturnsEmpty ==
    (pc \in {"returned", "raised"} /\ args.op = "get_reachable_nodes_from"
       /\ args.nodes = <<>>) =>
        /\ exception = "None"
        /\ pc = "returned"
        /\ result = {}

\* C10: no query changes the node set, the accepting set or the adjacency
\* structure of the graph, also when the node or symbol asked for has no
\* recorded edge.
C10_QueriesDoNotMutate ==
    [][/\ graph'.nodes = graph.nodes
       /\ graph'.finite_nodes = graph.finite_nodes
       /\ graph'.graph = graph.graph]_vars

\* The strings of Strings that the walk of g from its start_node ends on an
\* accepting node for, whichever node get_next_node takes.
Accepted(g) ==
    {w \in Strings : \A f \in Walk(g, g.start_node, w) :
                        f # None /\ f \in g.finite_nodes}

\* C11: two constructions from structurally equal trees accept exactly the
\* same strings of length at most MaxLen, whatever elements the closure
\* computations of either construction pop.
C11_SameBehaviour ==
    (pc = "done" /\ first_graph # DSMGraph) =>
        /\ Accepted(graph) = Accepted(first_graph)
        /\ \A w \in Strings :
               (None \in Walk(graph, graph.start_node, w))
               <=> (None \in Walk(first_graph, first_graph.start_node, w))

\* Both constructions are done, of a tree with a repetition whose start
\* closure holds at least three nodes, so that the closure loop had a choice
\* of the element to pop; some string is accepted and some is rejected.
C11_Witness ==
    /\ pc = "done" /\ first_graph # DSMGraph
    /\ \E sub \in Trees : sub.op = "STAR" /\ regex = Alternation(sub, Literal("b"))
    /\ Len(graph.start_node) >= 3
    /\ Accepted(graph) # {} /\ Accepted(graph) # Strings

NoDuplicates(seq) == \A i, j \in 1..Len(seq) : i # j => seq[i] # seq[j]

\* The composite nodes a walk from start_node can reach, start_node included.
ReachableComposites(g) == {g.start_node} \cup ReachableSet(g, {g.start_node})

\* C12: during subset construction no composite node is appended to stack
\* twice and none is popped twice, and when the construction is done every
\* composite node reachable from start_node, start_node included, has been
\* appended and popped.
C12_DiscoveredOnce ==
    /\ NoDuplicates(pushes)
    /\ NoDuplicates(pops)
    /\ pc = "done" => /\ ReachableComposites(graph) \subseteq Range(pushes)
                      /\ ReachableComposites(graph) \subseteq Range(pops)

\* A composite node waits on stack, not yet popped, while edges of two
\* other composite nodes already lead to it.
C12_Witness ==
    /\ pc = "dsm_while"
    /\ \E i \in 1..Len(stack) : \E source, other \in Range(pops) :
          /\ source # other
          /\ stack[i] \in get_neighbors(graph, source)
          /\ stack[i] \in get_neighbors(graph, other)

RECURSIVE Power(_, _)
Power(b, n) == IF n = 0 THEN 1 ELSE b * Power(b, n - 1)

\* The nodes of an NDSMGraph: node 0 and the ends of its edges.
NdsmNodesOf(g) == g.nodes \cup {0}

\* C13: subset construction pops at most 2^|nodes of the NDSM graph|
\* composite nodes; every pass of its while loop pops one and runs a for
\* loop of Len(REGEX_ALPHABET) passes, so the loop ends with stack empty.
C13_BoundedExpansions ==
    /\ Len(pops) <= Power(2, Cardinality(NdsmNodesOf(ndsm_graph)))
    /\ sym_idx <= Len(REGEX_ALPHABET)
    /\ pc \in {"build_dsm", "dsm_while", "dsm_for", "done"}
    /\ pc = "done" => stack = <<>>

\* A finished subset construction that popped exactly 2^|nodes| composite
\* nodes: start_node, which leads to itself, was popped twice.
C13_Witness ==
    /\ pc = "done" /\ stack = <<>>
    /\ Len(pops) = Power(2, Cardinality(NdsmNodesOf(ndsm_graph)))
    /\ pops = <<graph.start_node, graph.start_node>>

(***************************************************************************)
(* The subset construction as a least fixed point, for reference.          *)
(***************************************************************************)
\* The least set that holds S and is closed under the EPSILON edges of g.
RECURSIVE EpsilonClosure(_, _)
EpsilonClosure(g, S) ==
    LET T == S \cup UNION {get_edges_form(g, n, EPSILON) : n \in S}
    IN IF T = S THEN S ELSE EpsilonClosure(g, T)

\* The nodes a run can be in after it read symbol from a node of S, with
\* EPSILON moves after the symbol.
NdsmStep(g, S, symbol) ==
    EpsilonClosure(g, UNION {get_edges_form(g, n, symbol) : n \in S})

\* The nodes a run of g from node 0 over w can be in, EPSILON moves anywhere.
RECURSIVE NdsmRun(_, _, _)
NdsmRun(g, S, w) ==
    IF w = <<>> THEN S ELSE NdsmRun(g, NdsmStep(g, S, Head(w)), Tail(w))

NdsmReached(g, w) == NdsmRun(g, EpsilonClosure(g, {0}), w)

\* The members of a set of integers in ascending order.
RECURSIVE Ascending(_)
Ascending(S) ==
    IF S = {} THEN <<>>
    ELSE LET top == CHOOSE x \in S : \A y \in S : y <= x
         IN Append(Ascending(S \ {top}), top)

\* The least family of node sets that holds R and every non-empty set a
\* symbol leads to from a set of the family.
RECURSIVE SubsetClosure(_, _)
SubsetClosure(g, R) ==
    LET T == R \cup ({NdsmStep(g, S, sym) : S \in R, sym \in Alphabet} \ {{}})
    IN IF T = R THEN R ELSE SubsetClosure(g, T)

ExpectedSets(g) == SubsetClosure(g, {EpsilonClosure(g, {0})})

ExpectedEdges(g) ==
    {<<Ascending(p[1]), p[2], Ascending(NdsmStep(g, p[1], p[2]))>> :
        p \in {q \in ExpectedSets(g) \X Alphabet : NdsmStep(g, q[1], q[2]) # {}}}

\* The edges of a graph as <<source, key, target>>.
EdgesOf(g) ==
    UNION {UNION {{<<source, key, target>> : target \in g.graph[source][key]} :
                    key \in DOMAIN g.graph[source]} : source \in DOMAIN g.graph}

\* C14: the DSM graph subset construction returns (start_node, nodes,
\* accepting nodes and edges) is the one the NDSM graph determines, whatever
\* node the worklist gives up at each pass and whatever order the symbols
\* are taken in.
C14_OrderIndependent ==
    pc = "done" =>
        /\ graph.start_node = Ascending(EpsilonClosure(ndsm_graph, {0}))
        /\ EdgesOf(graph) = ExpectedEdges(ndsm_graph)
        /\ graph.nodes = {e[1] : e \in ExpectedEdges(ndsm_graph)}
                         \cup {e[3] : e \in ExpectedEdges(ndsm_graph)}
        /\ graph.finite_nodes
           = {Ascending(S) : S \in {T \in ExpectedSets(ndsm_graph) :
                                       T \cap ndsm_graph.finite_nodes # {}}}

\* A finished construction that went another way than the code: the pass
\* of start_node took the second symbol first, so that the node this symbol
\* leads to was appended before the node of the first symbol, and the node
\* appended first was popped first, as from a queue.
C14_Witness ==
    /\ pc = "done"
    /\ Len(pushes) >= 4
    /\ pushes[2] \in get_edges_form(graph, graph.start_node, REGEX_ALPHABET[2])
    /\ pushes[3] \in get_edges_form(graph, graph.start_node, REGEX_ALPHABET[1])
    /\ pops[2] = pushes[2]

\* C15: for every NDSM graph and every string w of length at most MaxLen,
\* the walk of the finished DSM graph from start_node along w is at the
\* ascending tuple of the NDSM nodes that a run from node 0 over w can be
\* in (and at no node when there is none), and it ends on an accepting node
\* exactly when one of these NDSM nodes is accepting.
C15_SimulatesNdsm ==
    pc = "done" =>
        \A w \in Strings : \A f \in Walk(graph, graph.start_node, w) :
            /\ (f = None) <=> (NdsmReached(ndsm_graph, w) = {})
            /\ f # None => f = Ascending(NdsmReached(ndsm_graph, w))
            /\ (f # None /\ f \in graph.finite_nodes)
               <=> (NdsmReached(ndsm_graph, w) \cap ndsm_graph.finite_nodes # {})

\* A finished construction on an NDSM graph where a node has two edges of
\* one symbol: a string of length MaxLen ends on an accepting composite node
\* of two or more members, a shorter one on a composite node that is not
\* accepting, and another string has no run.
C15_Witness ==
    /\ pc = "done"
    /\ \E n \in NdsmNodesOf(ndsm_graph) :
          Cardinality(get_edges_form(ndsm_graph, n, REGEX_ALPHABET[1])) >= 2
    /\ \E w \in Strings : \E f \in Walk(graph, graph.start_node, w) :
          Len(w) = MaxLen /\ f # None /\ Len(f) >= 2 /\ f \in graph.finite_nodes
    /\ \E w \in Strings : \E f \in Walk(graph, graph.start_node, w) :
          f # None /\ f \notin graph.finite_nodes
    /\ \E w \in Strings : None \in Walk(graph, graph.start_node, w)

\* C16: in one call of bfs (through distance_from_start) or of
\* distance_to_finite no node is taken from the queue twice.
C16_NoRevisit ==
    pc \in {"bfs_while", "dtf_while", "returned"} => NoDuplicates(log)

\* C17: _parse_regex builds every subtree that matches the empty string
\* only by the Neutral rule, whatever its tag: its activation takes no other
\* branch of the if/elif chain.
C17_NeutralRule ==
    \A i \in 1..Len(frames) :
        is_neutral(frames[i].regex) => frames[i].at \in {"enter", "neutral", "return"}

\* A composite node as _build_dsm makes them: a non-empty tuple of NDSM
\* nodes in ascending order, so without duplicates.
WellFormedComposite(node) ==
    /\ Len(node) >= 1
    /\ \A i \in 1..(Len(node) - 1) : node[i] < node[i + 1]

\* C18: subset construction never calls get_reachable_nodes_from on an
\* empty tuple, so it raises nothing: start_node and every node appended to
\* stack, waiting on it or popped from it is a non-empty ascending tuple.
C18_NonEmptyComposites ==
    /\ pc # "raised" /\ exception = "None"
    /\ \A node \in Range(pushes) \cup Range(pops) \cup Range(stack) :
          WellFormedComposite(node)
    /\ pc = "dsm_for" => WellFormedComposite(curr_node)
    /\ pc \in {"dsm_while", "dsm_for", "done"} => WellFormedComposite(graph.start_node)

\* A finished construction that popped a composite node of two or more
\* members from which a symbol leads nowhere: the empty tuple was computed
\* and not appended.
C18_Witness ==
    /\ pc = "done" /\ Len(pushes) >= 3
    /\ \E node \in Range(pops) : \E sym \in Alphabet :
          /\ Len(node) >= 2
          /\ get_reachable_nodes_from(ndsm_graph, node, sym).value = {}

\* C19: in the NDSM graph _parse_regex builds no edge of any label leads to
\* node 0, so that no edge of the DSM graph leads to start_node and no walk
\* along a non-empty string is at start_node again.
C19_StartNeverTarget ==
    /\ \A e \in EdgesOf(ndsm_graph) : e[3] # 0
    /\ \A e \in EdgesOf(graph) : e[3] # graph.start_node
    /\ pc = "done" =>
          \A w \in Strings : w # <<>> => graph.start_node \notin Walk(graph, graph.start_node, w)

\* A finished construction from a repetition: the DSM graph has a node that
\* leads to itself and start_node has an edge.
C19_Witness ==
    /\ pc = "done" /\ regex.op = "STAR"
    /\ \E node \in graph.nodes : node \in get_neighbors(graph, node)
    /\ get_neighbors(graph, graph.start_node) # {}
    /\ \E e \in EdgesOf(ndsm_graph) : e[1] = 0

====
